---- MODULE Spec2Model ----
(***************************************************************************)
(* Serein: batch generation of HD wallets (wallet_service.py) and the      *)
(* background worker / main window that drive it (ui_main_window.py).      *)
(*                                                                         *)
(* Byte strings are scaled down: a 32-byte value is a number below KeyMod, *)
(* a 64-byte value (an HMAC-SHA512 digest, a BIP-39 seed) a number below   *)
(* HashMod = KeyMod * KeyMod, so that a digest splits into two 32-byte     *)
(* halves exactly as I[:32], I[32:] does.  The secp256k1 group order is    *)
(* scaled with it and stays strictly below KeyMod, as n < 2^256.           *)
(***************************************************************************)
EXTENDS Integers, Sequences, FiniteSets, TLC

VARIABLES
    backend,      \* eth_keys ECC backend of the process: "coincurve" or "native"
    hexbytes,     \* hexbytes release installed with eth_account: "0.x" or "1.x"
    window,       \* module whose MainWindow the process shows
    w_pc,         \* position of the worker thread inside run / generate_wallets
    w_count,      \* WalletGeneratorWorker.count
    w_network,    \* WalletGeneratorWorker.network
    w_i,          \* loop variable i of generate_wallets
    w_mnemonic,   \* local mnemonic of the current unit
    w_wallets,    \* local list wallets of generate_wallets
    w_error,      \* the exception travelling up to run(), "none" when there is none
    drawn,        \* entropy draws (MNEMONIC_GEN.generate) made by the current call
    emitted,      \* signals emitted by the current worker, in order
    delivered,    \* how many of them the UI thread has handled
    wallets,      \* MainWindow.wallets
    table,        \* MainWindow.table: the rows shown, one per record
    show_private_keys,  \* MainWindow.show_private_keys
    start_btn,    \* MainWindow.start_btn.isEnabled()
    worker,       \* MainWindow.worker: "none" or "registered"
    current_theme,  \* MainWindow.current_theme
    settings,     \* what user_settings.json holds
    message_box,  \* the QMessageBox the last handler of the window showed
    fn            \* a direct call of a module-level function and its result

vars == << backend, hexbytes, window, w_pc, w_count, w_network, w_i, w_mnemonic, w_wallets,
           w_error, drawn, emitted, delivered, wallets, table,
           show_private_keys, start_btn, worker, current_theme, settings,
           message_box, fn >>

\* what the process runs with: its libraries and its window module
libVars == << backend, hexbytes, window >>
workerVars == << w_pc, w_count, w_network, w_i, w_mnemonic, w_wallets,
                 w_error, drawn, emitted >>
\* the window: its list and table, its start button and worker, its theme
listVars == << wallets, table >>
startVars == << start_btn, worker >>
themeVars == << current_theme, settings >>
uiVars == << delivered, listVars, show_private_keys, startVars, themeVars,
            message_box >>

(***************************************************************************)
(* Bounds of the model                                                     *)
(***************************************************************************)
\* largest batch that is run to completion
MaxCount == 2
\* units of a larger batch that are followed
MaxLongRun == 1
\* number of distinct entropy values os.urandom may return
MaxEntropy == 2
\* scaled secp256k1 group order
SECP256K1_N == 10
\* how many 32-byte values lie at or above the group order
KeySlack == 1

KeyMod == SECP256K1_N + KeySlack
HashMod == KeyMod * KeyMod

(***************************************************************************)
(* config.py                                                               *)
(***************************************************************************)
ChainType_EVM == "EVM"
ChainType_SOLANA == "Solana"

MAX_WALLET_COUNT == 10000

DEFAULT_THEME == "light"

\* the {index} placeholder of a path template
Placeholder == -1

Seg(index, hardened) == [index |-> index, hardened |-> hardened]

\* "m/44'/60'/0'/0/{index}"
DERIVATION_PATH_TEMPLATE_EVM ==
    << Seg(44, TRUE), Seg(60, TRUE), Seg(0, TRUE), Seg(0, FALSE),
       Seg(Placeholder, FALSE) >>

\* "m/44'/501'/0'/0'/{index}'"
DERIVATION_PATH_TEMPLATE_SOL ==
    << Seg(44, TRUE), Seg(501, TRUE), Seg(0, TRUE), Seg(0, TRUE),
       Seg(Placeholder, TRUE) >>

\* None (and the empty string) of an Optional[str] template
NoTemplate == << >>

NetworkConfig(name, chain_type, template) ==
    [name |-> name, chain_type |-> chain_type,
     derivation_path_template |-> template]

\* A str handed over where a NetworkConfig is expected: reading .chain_type of
\* it raises AttributeError
NoAttribute == "<AttributeError>"
StrAsNetwork(name) == NetworkConfig(name, NoAttribute, NoTemplate)

\* is_custom: True for the last preset only
IsCustom(net) == net.name = "Custom Network / RPC"

\* The presets that differ in what generate_wallets reads, and two configurations
\* a caller of generate_wallets can build: a Solana network without a template and
\* a network of a chain kind no deriver knows.
PRESET_NETWORKS ==
    { NetworkConfig("Ethereum", ChainType_EVM, NoTemplate),
      NetworkConfig("Solana", ChainType_SOLANA, DERIVATION_PATH_TEMPLATE_SOL),
      NetworkConfig("Custom Network / RPC", ChainType_EVM,
                    DERIVATION_PATH_TEMPLATE_EVM) }

CallerNetworks ==
    PRESET_NETWORKS \cup
    { NetworkConfig("Solana bare", ChainType_SOLANA, NoTemplate),
      NetworkConfig("Bitcoin", "Bitcoin", NoTemplate) }

\* mutant: the one-based record index is substituted instead of i
Format_onebased(template, i) ==
    [ j \in 1..Len(template) |->
        IF template[j].index = Placeholder
        THEN [template[j] EXCEPT !.index = i + 1]
        ELSE template[j] ]

\* str.format(index=i) on a template
Format(template, i) ==
    [ j \in 1..Len(template) |->
        IF template[j].index = Placeholder
        THEN [template[j] EXCEPT !.index = i]
        ELSE template[j] ]

(***************************************************************************)
(* Library primitives (hashlib, hmac, mnemonic, eth_keys, nacl, base58)    *)
(***************************************************************************)
RECURSIVE Absorb(_, _)
Absorb(h, data) ==
    IF data = << >> THEN h
    ELSE Absorb((h * 31 + Head(data) + 1) % HashMod, Tail(data))

\* hmac.new(key, data, hashlib.sha512).digest(), split as I[:32], I[32:]
HmacSha512(key, data) ==
    LET h == Absorb((key + 3) % HashMod, data)
    IN  [Il |-> h \div KeyMod, Ir |-> h % KeyMod]

\* the HMAC keys b"Bitcoin seed" and b"ed25519 seed"
BITCOIN_SEED == 11
ED25519_SEED == 23

\* A segment index after int(seg.rstrip("'")) is the number hi * 2^31 + lo, kept
\* as its high part and its low 31 bits (every textual index here is below 2^31).
IndexOf(text) == [hi |-> 0, lo |-> text]

\* index += 0x80000000
AddHardenedBit(index) == [index EXCEPT !.hi = @ + 1]

\* index |= 0x80000000
OrHardenedBit(index) ==
    IF index.hi % 2 = 1 THEN index ELSE [index EXCEPT !.hi = @ + 1]

\* index.to_bytes(4, "big") succeeds for 0 <= index < 2^32
FitsUint32(index) == index.hi <= 1

\* the four bytes of index.to_bytes(4, "big"): the top bit, the other 31
IndexBytes(index) == << index.hi, index.lo >>

\* eth_keys: PrivateKey(k).public_key.to_compressed_bytes(), prefix byte and x
CompressedPubkey(k) == << 2 + (k % 2), (k * 3 + 1) % KeyMod >>

\* eth_keys: what PrivateKey(k) does with a scalar no curve point belongs to.
\* Both backends refuse k >= n; coincurve also refuses k = 0, the native backend
\* multiplies the generator by zero.
PrivateKeyRejected(k) ==
    \/ k >= SECP256K1_N
    \/ k = 0 /\ backend = "coincurve"

\* hexbytes: HexBytes(b).hex(); releases before 1.0 put "0x" in front of the
\* digits, later ones do not
HexBytesHex(b) ==
    [enc |-> IF hexbytes = "0.x" THEN "0xhex" ELSE "hex", bytes |-> b]

\* nacl: SigningKey(seed).verify_key
VerifyKey(seed) == (seed * 5 + 3) % KeyMod

\* mnemonic: the checksum of `strength` bits of entropy, the leading strength/32
\* bits of their SHA-256
Checksum(entropy, strength) ==
    Absorb(strength % HashMod, << entropy >>) % (2 ^ (strength \div 32))

\* mnemonic: Mnemonic.generate(strength), with the entropy os.urandom returned.
\* A phrase is its word count and the entropy and checksum bits its words spell.
MnemonicGenerate(strength, entropy) ==
    [words |-> (strength + strength \div 32) \div 11,
     ent |-> entropy,
     cs |-> Checksum(entropy, strength)]

\* mnemonic: Mnemonic.check(phrase) splits the bits the words spell into entropy
\* and checksum by the word count and recomputes the checksum
MnemonicCheck(phrase) ==
    /\ phrase.words \in {12, 15, 18, 21, 24}
    /\ phrase.cs = Checksum(phrase.ent, ((phrase.words * 11) \div 33) * 32)

\* mnemonic: Mnemonic.to_seed(phrase, ""), PBKDF2-HMAC-SHA512 to 64 bytes
MnemonicToSeed(phrase) ==
    Absorb(2048 % HashMod, << phrase.words, phrase.ent, phrase.cs >>)

(***************************************************************************)
(* wallet_service.py                                                       *)
(***************************************************************************)
\* mutant: the cap itself is refused (count >= max_count)
validate_wallet_count_offbyone(count, max_count) ==
    IF count <= 0 THEN "count"
    ELSE IF count >= max_count THEN "count"
    ELSE "ok"

\* "ok" or the error validate_wallet_count raises
validate_wallet_count(count, max_count) ==
    IF count <= 0 THEN "count"
    ELSE IF count > max_count THEN "count"
    ELSE "ok"

\* A URL text is its scheme prefix and the rest; NoText is the empty text.
NoText == [prefix |-> "", rest |-> ""]
Url(prefix, rest) == [prefix |-> prefix, rest |-> rest]

validate_rpc_url(url) ==
    IF url = NoText THEN FALSE
    ELSE url.prefix = "http://" \/ url.prefix = "https://"

\* mutant: 15 words mapped to the strength of 12
MnemonicStrength_shifted ==
    (12 :> 128) @@ (15 :> 128) @@ (18 :> 192) @@ (21 :> 224) @@ (24 :> 256)

\* mapping of _generate_mnemonic
MnemonicStrength ==
    (12 :> 128) @@ (15 :> 160) @@ (18 :> 192) @@ (21 :> 224) @@ (24 :> 256)

\* entropy is what the generator would draw; it is drawn only when ok
_generate_mnemonic(num_words, entropy) ==
    IF num_words \notin DOMAIN MnemonicStrength
    THEN [ok |-> FALSE, error |-> "words", drew |-> 0,
          strength |-> 0, mnemonic |-> MnemonicGenerate(0, 0)]
    ELSE [ok |-> TRUE, error |-> "none", drew |-> 1,
          strength |-> MnemonicStrength[num_words],
          mnemonic |-> MnemonicGenerate(MnemonicStrength[num_words], entropy)]

\* mutant: state carried across units, the seed of the record built last is used
\* again when there is one
_mnemonic_to_seed_stale(mnemonic) ==
    IF ~MnemonicCheck(mnemonic)
    THEN [ok |-> FALSE, error |-> "mnemonic", seed |-> 0]
    ELSE IF w_wallets # << >>
    THEN [ok |-> TRUE, error |-> "none",
          seed |-> MnemonicToSeed(w_wallets[Len(w_wallets)].mnemonic)]
    ELSE [ok |-> TRUE, error |-> "none", seed |-> MnemonicToSeed(mnemonic)]

\* mutant: the seed is computed without MNEMONIC_GEN.check
_mnemonic_to_seed_unchecked(mnemonic) ==
    [ok |-> TRUE, error |-> "none", seed |-> MnemonicToSeed(mnemonic)]

_mnemonic_to_seed(mnemonic) ==
    IF ~MnemonicCheck(mnemonic)
    THEN [ok |-> FALSE, error |-> "mnemonic", seed |-> 0]
    ELSE [ok |-> TRUE, error |-> "none", seed |-> MnemonicToSeed(mnemonic)]

\* mutant: the sum IL + k is returned as it is, without % SECP256K1_N
_derive_child_nomod(private_key, chain_code, index, hardened) ==
    IF ~hardened /\ PrivateKeyRejected(private_key)
    THEN [ok |-> FALSE, error |-> "key", key |-> 0, chain |-> 0, Il |-> 0]
    ELSE IF ~FitsUint32(index)
    THEN [ok |-> FALSE, error |-> "overflow", key |-> 0, chain |-> 0, Il |-> 0]
    ELSE
      LET data == IF hardened
                  THEN << 0, private_key >> \o IndexBytes(index)
                  ELSE CompressedPubkey(private_key) \o IndexBytes(index)
          I == HmacSha512(chain_code, data)
          child_int == I.Il + private_key
      IN  [ok |-> TRUE, error |-> "none", key |-> child_int, chain |-> I.Ir,
           Il |-> I.Il]

\* one BIP-32 step; Il is kept in the result only for the claims about it
_derive_child(private_key, chain_code, index, hardened) ==
    IF ~hardened /\ PrivateKeyRejected(private_key)
    THEN [ok |-> FALSE, error |-> "key", key |-> 0, chain |-> 0, Il |-> 0]
    ELSE IF ~FitsUint32(index)
    THEN [ok |-> FALSE, error |-> "overflow", key |-> 0, chain |-> 0, Il |-> 0]
    ELSE
      LET data == IF hardened
                  THEN << 0, private_key >> \o IndexBytes(index)
                  ELSE CompressedPubkey(private_key) \o IndexBytes(index)
          I == HmacSha512(chain_code, data)
          child_int == (I.Il + private_key) % SECP256K1_N
      IN  [ok |-> TRUE, error |-> "none", key |-> child_int, chain |-> I.Ir,
           Il |-> I.Il]

\* mutant: the apostrophe is dropped and nothing is added to the index
Bip32Index_plain(seg) == IndexOf(seg.index)

\* _derive_private_key_from_path: the index of a segment, += 0x80000000 when its
\* text ends with an apostrophe
Bip32Index(seg) ==
    IF seg.hardened THEN AddHardenedBit(IndexOf(seg.index))
    ELSE IndexOf(seg.index)

\* _derive_private_key_from_path: what the loop hands to _derive_child for each
\* segment of path
Bip32Steps(path) ==
    [ j \in 1..Len(path) |->
        [index |-> Bip32Index(path[j]), hardened |-> path[j].hardened] ]

\* the loop of _derive_private_key_from_path over the segments still to do
RECURSIVE DeriveSegments(_, _, _)
DeriveSegments(priv, chain, segments) ==
    IF segments = << >> THEN [ok |-> TRUE, error |-> "none", key |-> priv]
    ELSE
      LET seg == Head(segments)
          hardened == seg.hardened
          index == Bip32Index(seg)
          child == _derive_child(priv, chain, index, hardened)
      IN  IF ~child.ok THEN [ok |-> FALSE, error |-> child.error, key |-> 0]
          ELSE DeriveSegments(child.key, child.chain, Tail(segments))

_derive_private_key_from_path(seed, path) ==
    LET I == HmacSha512(BITCOIN_SEED, << seed >>)
    IN  DeriveSegments(I.Il, I.Ir, path)

\* eth_account: Account.from_key(k).address, the EIP-55 text of a hash of the
\* public key
EvmAddress(k) ==
    [enc |-> "eip55", bytes |-> << Absorb(60, CompressedPubkey(k)) % KeyMod >>]

_derive_evm_account(mnemonic, path) ==
    LET s == _mnemonic_to_seed(mnemonic)
        k == _derive_private_key_from_path(s.seed, path)
        none == [enc |-> "none", bytes |-> << >>]
    IN  IF ~s.ok
        THEN [ok |-> FALSE, error |-> s.error, address |-> none,
              private_key |-> none, path |-> path]
        ELSE IF ~k.ok
        THEN [ok |-> FALSE, error |-> k.error, address |-> none,
              private_key |-> none, path |-> path]
        ELSE IF PrivateKeyRejected(k.key)
        THEN [ok |-> FALSE, error |-> "key", address |-> none,
              private_key |-> none, path |-> path]
        ELSE [ok |-> TRUE, error |-> "none", address |-> EvmAddress(k.key),
              private_key |-> HexBytesHex(<< k.key >>),
              path |-> path]

\* mutant: the apostrophe decides, as in _derive_private_key_from_path
Slip10Index_marker(seg) ==
    IF seg.hardened THEN OrHardenedBit(IndexOf(seg.index))
    ELSE IndexOf(seg.index)

\* _slip10_derive_ed25519: the index of a segment; a segment without an
\* apostrophe is made hardened, and a hardened index gets |= 0x80000000
Slip10Index(seg) ==
    LET hardened == IF ~seg.hardened THEN TRUE ELSE seg.hardened
    IN  IF hardened THEN OrHardenedBit(IndexOf(seg.index))
        ELSE IndexOf(seg.index)

\* _slip10_derive_ed25519: the index and the hardened flag of each segment of
\* path at the point where data is built
Slip10Steps(path) ==
    [ j \in 1..Len(path) |->
        [index |-> Slip10Index(path[j]),
         hardened |-> IF ~path[j].hardened THEN TRUE ELSE path[j].hardened] ]

\* the loop of _slip10_derive_ed25519 over the segments still to do
RECURSIVE Slip10Segments(_, _, _)
Slip10Segments(key, chain_code, segments) ==
    IF segments = << >> THEN key
    ELSE
      LET seg == Head(segments)
          index == Slip10Index(seg)
          I == HmacSha512(chain_code, << 0, key >> \o IndexBytes(index))
      IN  Slip10Segments(I.Il, I.Ir, Tail(segments))

_slip10_derive_ed25519(seed, path) ==
    LET I == HmacSha512(ED25519_SEED, << seed >>)
    IN  Slip10Segments(I.Il, I.Ir, path)

_derive_solana_account(mnemonic, index, path_template) ==
    LET s == _mnemonic_to_seed(mnemonic)
        path == Format(path_template, index)
        private_seed == _slip10_derive_ed25519(s.seed, path)
        verify_key == VerifyKey(private_seed)
        none == [enc |-> "none", bytes |-> << >>]
    IN  IF ~s.ok
        THEN [ok |-> FALSE, error |-> s.error, address |-> none,
              private_key |-> none, path |-> path]
        ELSE [ok |-> TRUE, error |-> "none",
              address |-> [enc |-> "base58", bytes |-> << verify_key >>],
              private_key |-> [enc |-> "base58",
                               bytes |-> << private_seed, verify_key >>],
              path |-> path]

\* models.py: WalletRecord(...)
WalletRecord(index, network, unit, mnemonic) ==
    [index |-> index,
     chain_type |-> network.chain_type,
     network |-> network.name,
     address |-> unit.address,
     mnemonic |-> mnemonic,
     derivation_path |-> unit.path,
     private_key |-> unit.private_key]

\* `template or DEFAULT`
TemplateOr(template, default) ==
    IF template # NoTemplate THEN template ELSE default

\* generate_wallets, the branch on network.chain_type for unit i
DeriveUnit(network, i, mnemonic) ==
    IF network.chain_type = NoAttribute
    THEN [ok |-> FALSE, error |-> "attribute",
          address |-> [enc |-> "none", bytes |-> << >>],
          private_key |-> [enc |-> "none", bytes |-> << >>],
          path |-> << >>]
    ELSE IF network.chain_type = ChainType_EVM
    THEN LET path_template == TemplateOr(network.derivation_path_template,
                                         DERIVATION_PATH_TEMPLATE_EVM)
         IN  _derive_evm_account(mnemonic, Format(path_template, i))
    ELSE IF network.chain_type = ChainType_SOLANA
    THEN LET path_template == TemplateOr(network.derivation_path_template,
                                         DERIVATION_PATH_TEMPLATE_SOL)
         IN  _derive_solana_account(mnemonic, i, path_template)
    ELSE [ok |-> FALSE, error |-> "chain",
          address |-> [enc |-> "none", bytes |-> << >>],
          private_key |-> [enc |-> "none", bytes |-> << >>],
          path |-> << >>]

(***************************************************************************)
(* ui_main_window.py: the worker's signals                                 *)
(***************************************************************************)
\* mutant: the zero-based loop index is reported
ProgressSignal_zerobased(done, total) ==
    [type |-> "progress", done |-> done - 1, total |-> total,
     wallets |-> << >>, message |-> "none"]

ProgressSignal(done, total) ==
    [type |-> "progress", done |-> done, total |-> total,
     wallets |-> << >>, message |-> "none"]

FinishedSignal(ws) ==
    [type |-> "finished", done |-> 0, total |-> 0,
     wallets |-> ws, message |-> "none"]

\* mutant: the records built before the error are handed over as the result
FailedSignal_partial(message) ==
    [type |-> "finished", done |-> 0, total |-> 0,
     wallets |-> w_wallets, message |-> "none"]

FailedSignal(message) ==
    [type |-> "failed", done |-> 0, total |-> 0,
     wallets |-> << >>, message |-> message]

(***************************************************************************)
(* theme_manager.py                                                        *)
(***************************************************************************)
\* user_settings.json: absent, not readable as JSON, or a JSON object whose
\* "theme" entry is the given value (NoKey: the object has no such entry)
NoFile == [kind |-> "missing", theme |-> "none"]
BadFile == [kind |-> "unreadable", theme |-> "none"]
NoKey == "<no key>"
JsonFile(theme) == [kind |-> "json", theme |-> theme]

load_theme(file) ==
    IF file.kind = "missing" THEN DEFAULT_THEME
    ELSE IF file.kind = "unreadable" THEN DEFAULT_THEME
    ELSE LET theme == IF file.theme = NoKey THEN DEFAULT_THEME ELSE file.theme
         IN  IF theme \in {"light", "dark"} THEN theme ELSE DEFAULT_THEME

\* the file save_theme leaves behind
save_theme(theme) == JsonFile(theme)

(***************************************************************************)
(* ui_main_window.py: the table                                            *)
(***************************************************************************)
MaskText == [enc |-> "mask", bytes |-> << >>]

\* _mask_value, show being self.show_private_keys at the call
_mask_value(show, value) == IF show THEN value ELSE MaskText

\* the cells _refresh_table fills for one record
TableRow(show, w) ==
    [index |-> w.index,
     chain_type |-> w.chain_type,
     network |-> w.network,
     address |-> w.address,
     mnemonic |-> w.mnemonic,
     derivation_path |-> w.derivation_path,
     private_key |-> _mask_value(show, w.private_key)]

\* the table after _refresh_table
_refresh_table(show, ws) == [ row \in 1..Len(ws) |-> TableRow(show, ws[row]) ]

(***************************************************************************)
(* Inputs                                                                  *)
(***************************************************************************)
Counts == {-1, 0} \cup (1..MaxCount) \cup {MAX_WALLET_COUNT, MAX_WALLET_COUNT + 1}
Entropies == 0..(MaxEntropy - 1)
NoMnemonic == MnemonicGenerate(0, 0)
\* how far the loop of a batch of count units is followed
UnitsFollowed(count) == IF count > MaxCount THEN MaxLongRun ELSE MaxCount

(***************************************************************************)
(* State machine                                                           *)
(***************************************************************************)
\* the process after MainWindow.__init__ of the given module,
\* user_settings.json being file when load_theme was called
InitProcess(module, file) ==
    /\ backend \in {"coincurve", "native"}
    /\ hexbytes \in {"0.x", "1.x"}
    /\ window = module
    /\ w_pc = "new"
    /\ w_count = 0
    /\ w_network = NetworkConfig("Ethereum", ChainType_EVM, NoTemplate)
    /\ w_i = 0
    /\ w_mnemonic = NoMnemonic
    /\ w_wallets = << >>
    /\ w_error = "none"
    /\ drawn = 0
    /\ emitted = << >>
    /\ delivered = 0
    /\ wallets = << >>
    /\ table = << >>
    /\ show_private_keys = FALSE
    /\ start_btn = TRUE
    /\ worker = "none"
    /\ settings = file
    /\ current_theme = load_theme(file)
    /\ message_box = "none"
    /\ fn = [op |-> "none"]

\* run_app: the window is the MainWindow of ui_main_window
InitWith(file) == InitProcess("ui_main_window", file)

\* a first start: there is no user_settings.json yet
Init == InitWith(NoFile)

\* WalletGeneratorWorker(count, network).start(): the thread enters run() and
\* calls generate_wallets.  A new worker is started once the last one's signals
\* have been handled.
WorkerStart(count, network) ==
    /\ w_pc \in {"new", "done"}
    /\ delivered = Len(emitted)
    /\ w_pc' = "validate"
    /\ w_count' = count
    /\ w_network' = network
    /\ w_i' = 0
    /\ w_mnemonic' = NoMnemonic
    /\ w_wallets' = << >>
    /\ w_error' = "none"
    /\ drawn' = 0
    /\ emitted' = << >>
    /\ delivered' = 0
    /\ message_box' = "none"
    /\ UNCHANGED << libVars, listVars, show_private_keys, startVars, themeVars,
                    fn >>

\* generate_wallets: validate_wallet_count(count, max_count=MAX_WALLET_COUNT)
ValidateCount ==
    /\ w_pc = "validate"
    /\ LET r == validate_wallet_count(w_count, MAX_WALLET_COUNT)
       IN  IF r = "ok"
           THEN w_pc' = "loop" /\ w_error' = w_error
           ELSE w_pc' = "raised" /\ w_error' = r
    /\ UNCHANGED << libVars, w_count, w_network, w_i, w_mnemonic, w_wallets,
                    drawn, emitted, fn >>
    /\ UNCHANGED uiVars

\* mutant: a phrase is drawn for the first unit only and used again after it
DrawMnemonic_reuse(entropy) ==
    /\ w_pc = "loop"
    /\ w_i < w_count
    /\ w_i < UnitsFollowed(w_count)
    /\ LET g == _generate_mnemonic(12, entropy)
       IN  IF w_wallets # << >>
           THEN /\ drawn' = drawn
                /\ w_pc' = "dispatch"
                /\ w_mnemonic' = w_wallets[1].mnemonic
                /\ w_error' = w_error
           ELSE /\ drawn' = drawn + g.drew
                /\ w_pc' = "dispatch"
                /\ w_mnemonic' = g.mnemonic
                /\ w_error' = w_error
    /\ UNCHANGED << libVars, w_count, w_network, w_i, w_wallets, emitted, fn >>
    /\ UNCHANGED uiVars

\* generate_wallets: for i in range(count): mnemonic = _generate_mnemonic(12)
DrawMnemonic(entropy) ==
    /\ w_pc = "loop"
    /\ w_i < w_count
    /\ w_i < UnitsFollowed(w_count)
    /\ LET g == _generate_mnemonic(12, entropy)
       IN  /\ drawn' = drawn + g.drew
           /\ IF g.ok
              THEN w_pc' = "dispatch" /\ w_mnemonic' = g.mnemonic
                   /\ w_error' = w_error
              ELSE w_pc' = "raised" /\ w_mnemonic' = w_mnemonic
                   /\ w_error' = g.error
    /\ UNCHANGED << libVars, w_count, w_network, w_i, w_wallets, emitted, fn >>
    /\ UNCHANGED uiVars

\* generate_wallets: the chain branch, the derivation and wallets.append(...)
Dispatch ==
    /\ w_pc = "dispatch"
    /\ LET unit == DeriveUnit(w_network, w_i, w_mnemonic)
       IN  IF unit.ok
           THEN /\ w_wallets' = Append(w_wallets,
                       WalletRecord(w_i + 1, w_network, unit, w_mnemonic))
                /\ w_pc' = "progress"
                /\ w_error' = w_error
           ELSE /\ w_wallets' = w_wallets
                /\ w_pc' = "raised"
                /\ w_error' = unit.error
    /\ UNCHANGED << libVars, w_count, w_network, w_i, w_mnemonic, drawn,
                    emitted, fn >>
    /\ UNCHANGED uiVars

\* generate_wallets: progress_cb(i + 1), which is run()'s _cb: progress.emit
Progress ==
    /\ w_pc = "progress"
    /\ emitted' = Append(emitted, ProgressSignal(w_i + 1, w_count))
    /\ w_i' = w_i + 1
    /\ w_pc' = "loop"
    /\ UNCHANGED << libVars, w_count, w_network, w_mnemonic, w_wallets,
                    w_error, drawn, fn >>
    /\ UNCHANGED uiVars

\* generate_wallets: return wallets; run(): self.finished.emit(wallets)
Return ==
    /\ w_pc = "loop"
    /\ w_i >= w_count
    /\ emitted' = Append(emitted, FinishedSignal(w_wallets))
    /\ w_pc' = "done"
    /\ UNCHANGED << libVars, w_count, w_network, w_i, w_mnemonic, w_wallets,
                    w_error, drawn, fn >>
    /\ UNCHANGED uiVars

\* mutant: the error is reported and the loop goes on with the next unit
Except_continue ==
    /\ w_pc = "raised"
    /\ emitted' = Append(emitted, FailedSignal(w_error))
    /\ w_pc' = "loop"
    /\ w_i' = w_i + 1
    /\ UNCHANGED << libVars, w_count, w_network, w_mnemonic, w_wallets,
                    w_error, drawn, fn >>
    /\ UNCHANGED uiVars

\* run(): except Exception as exc: self.failed.emit(str(exc))
Except ==
    /\ w_pc = "raised"
    /\ emitted' = Append(emitted, FailedSignal(w_error))
    /\ w_pc' = "done"
    /\ UNCHANGED << libVars, w_count, w_network, w_i, w_mnemonic, w_wallets,
                    w_error, drawn, fn >>
    /\ UNCHANGED uiVars

\* the next signal queued for the UI thread
Pending == delivered < Len(emitted)
NextSignal == emitted[delivered + 1]

\* mutant: the start button is enabled again at the first progress signal
_on_progress_enable ==
    /\ Pending
    /\ NextSignal.type = "progress"
    /\ delivered' = delivered + 1
    /\ message_box' = "none"
    /\ start_btn' = TRUE
    /\ worker' = worker
    /\ UNCHANGED << libVars, listVars, show_private_keys, themeVars, fn >>
    /\ UNCHANGED workerVars

_on_progress ==
    /\ Pending
    /\ NextSignal.type = "progress"
    /\ delivered' = delivered + 1
    /\ message_box' = "none"
    /\ UNCHANGED << libVars, listVars, show_private_keys, startVars, themeVars,
                    fn >>
    /\ UNCHANGED workerVars

_on_finished ==
    /\ Pending
    /\ NextSignal.type = "finished"
    /\ wallets' = NextSignal.wallets
    /\ table' = _refresh_table(show_private_keys, NextSignal.wallets)
    /\ start_btn' = TRUE
    /\ worker' = "none"
    /\ delivered' = delivered + 1
    /\ message_box' = "none"
    /\ UNCHANGED << libVars, show_private_keys, themeVars, fn >>
    /\ UNCHANGED workerVars

\* mutant: the error is shown and the window stays as it was
_on_failed_stuck ==
    /\ Pending
    /\ NextSignal.type = "failed"
    /\ delivered' = delivered + 1
    /\ message_box' = "critical"
    /\ UNCHANGED << libVars, listVars, show_private_keys, startVars, themeVars,
                    fn >>
    /\ UNCHANGED workerVars

\* mutant: the records built before the error are shown
_on_failed_partial ==
    /\ Pending
    /\ NextSignal.type = "failed"
    /\ wallets' = w_wallets
    /\ table' = _refresh_table(show_private_keys, w_wallets)
    /\ start_btn' = TRUE
    /\ worker' = "none"
    /\ delivered' = delivered + 1
    /\ message_box' = "critical"
    /\ UNCHANGED << libVars, show_private_keys, themeVars, fn >>
    /\ UNCHANGED workerVars

_on_failed ==
    /\ Pending
    /\ NextSignal.type = "failed"
    /\ start_btn' = TRUE
    /\ worker' = "none"
    /\ delivered' = delivered + 1
    /\ message_box' = "critical"
    /\ UNCHANGED << libVars, listVars, show_private_keys, themeVars, fn >>
    /\ UNCHANGED workerVars

_clear_wallets ==
    /\ wallets' = << >>
    /\ table' = << >>
    /\ message_box' = "none"
    /\ UNCHANGED << libVars, delivered, show_private_keys, startVars, themeVars,
                    fn >>
    /\ UNCHANGED workerVars

Next ==
    \/ \E count \in Counts, network \in CallerNetworks : WorkerStart(count, network)
    \/ ValidateCount
    \/ \E entropy \in Entropies : DrawMnemonic(entropy)
    \/ Dispatch
    \/ Progress
    \/ Return
    \/ Except
    \/ _on_progress
    \/ _on_finished
    \/ _on_failed
    \/ _clear_wallets

Spec == Init /\ [][Next]_vars

(***************************************************************************)
(* Direct calls of the module-level functions of wallet_service.py         *)
(***************************************************************************)
\* longest path handed to a deriver directly
MaxPathLen == 2
WordCounts == {0, 11, 12, 13, 15, 18, 21, 24, 25}
PathSegments == { Seg(i, h) : i \in {0, 1, 44}, h \in BOOLEAN }
Paths ==
    UNION { [1..n -> PathSegments] : n \in 1..MaxPathLen }
Seeds == 0..(HashMod - 1)

\* fn holds the call being looked at, from its entry until FnReturn drops it
GenerateMnemonicCall(num_words, entropy) ==
    /\ fn.op = "none"
    /\ fn' = [op |-> "_generate_mnemonic", num_words |-> num_words,
              entropy |-> entropy,
              result |-> _generate_mnemonic(num_words, entropy)]
    /\ UNCHANGED << libVars, hexbytes >>
    /\ UNCHANGED workerVars
    /\ UNCHANGED uiVars

Slip10Call(seed, path) ==
    /\ fn.op = "none"
    /\ fn' = [op |-> "_slip10_derive_ed25519", seed |-> seed, path |-> path,
              steps |-> Slip10Steps(path),
              key |-> _slip10_derive_ed25519(seed, path)]
    /\ UNCHANGED << libVars, hexbytes >>
    /\ UNCHANGED workerVars
    /\ UNCHANGED uiVars

\* batch indices at both ends of range(MAX_WALLET_COUNT), and the default
\* templates with each of them substituted
BatchIndices == {0, 1, MAX_WALLET_COUNT - 1}
DefaultPaths(template) == { Format(template, i) : i \in BatchIndices }
DerivablePaths ==
    Paths \cup DefaultPaths(DERIVATION_PATH_TEMPLATE_EVM)
          \cup DefaultPaths(DERIVATION_PATH_TEMPLATE_SOL)

DerivePathCall(seed, path) ==
    /\ fn.op = "none"
    /\ fn' = [op |-> "_derive_private_key_from_path", seed |-> seed,
              path |-> path,
              steps |-> Bip32Steps(path),
              result |-> _derive_private_key_from_path(seed, path)]
    /\ UNCHANGED libVars
    /\ UNCHANGED workerVars
    /\ UNCHANGED uiVars

\* the 32-byte values and the indices _derive_child is handed
Keys32 == 0..(KeyMod - 1)
ChildIndices == { [hi |-> h, lo |-> l] : h \in {0, 1, 2}, l \in {0, 1, 44} }

DeriveChildCall(private_key, chain_code, index, hardened) ==
    /\ fn.op = "none"
    /\ fn' = [op |-> "_derive_child", private_key |-> private_key,
              chain_code |-> chain_code, index |-> index,
              hardened |-> hardened,
              result |-> _derive_child(private_key, chain_code, index, hardened)]
    /\ UNCHANGED libVars
    /\ UNCHANGED workerVars
    /\ UNCHANGED uiVars

FnReturn ==
    /\ fn.op # "none"
    /\ fn' = [op |-> "none"]
    /\ UNCHANGED << libVars, hexbytes >>
    /\ UNCHANGED workerVars
    /\ UNCHANGED uiVars

NextFn ==
    \/ /\ fn.op = "none"
       /\ \E num_words \in WordCounts, entropy \in Entropies :
             GenerateMnemonicCall(num_words, entropy)
    \/ /\ fn.op = "none"
       /\ \E seed \in Seeds, path \in DerivablePaths : Slip10Call(seed, path)
    \/ /\ fn.op = "none"
       /\ \E seed \in Seeds, path \in DerivablePaths :
             DerivePathCall(seed, path)
    \/ /\ fn.op = "none"
       /\ \E private_key \in Keys32, chain_code \in Keys32,
             index \in ChildIndices, hardened \in BOOLEAN :
             DeriveChildCall(private_key, chain_code, index, hardened)
    \/ FnReturn

SpecFn == Init /\ [][NextFn]_vars

(***************************************************************************)
(* generate_wallets with _generate_mnemonic replaced by a stub that hands  *)
(* the loop a phrase of the caller's choosing, valid or not                *)
(***************************************************************************)
\* a 12-word phrase whose last word spells another checksum
BadChecksum(phrase) == [phrase EXCEPT !.cs = (@ + 1) % 16]

StubPhrases ==
    { MnemonicGenerate(128, e) : e \in Entropies } \cup
    { BadChecksum(MnemonicGenerate(128, e)) : e \in Entropies } \cup
    { [words |-> 11, ent |-> 0, cs |-> 0] }

\* generate_wallets: mnemonic = _generate_mnemonic(12), the stub returning phrase
StubbedDraw(phrase) ==
    /\ w_pc = "loop"
    /\ w_i < w_count
    /\ w_i < UnitsFollowed(w_count)
    /\ drawn' = drawn + 1
    /\ w_pc' = "dispatch"
    /\ w_mnemonic' = phrase
    /\ UNCHANGED << libVars, w_count, w_network, w_i, w_wallets, w_error,
                    emitted, fn >>
    /\ UNCHANGED uiVars

NextStub ==
    \/ \E count \in Counts, network \in CallerNetworks : WorkerStart(count, network)
    \/ ValidateCount
    \/ \E phrase \in StubPhrases : StubbedDraw(phrase)
    \/ Dispatch
    \/ Progress
    \/ Return
    \/ Except

SpecStub == Init /\ [][NextStub]_vars

(***************************************************************************)
(* ui_main_window.py: the window's handlers of user actions                *)
(***************************************************************************)
\* values of the count spin box (its range is 1..MAX_WALLET_COUNT) whose batch
\* is followed to its end
UiCounts == 1..MaxCount
\* what the text boxes of the custom group hold, after strip()
CustomNames == {""}
RpcUrls ==
    { NoText, Url("https://", "rpc.example"), Url("ftp://", "rpc.example") }

\* `text or default`
TextOr(text, default) == IF text # "" THEN text ELSE default

\* _start_generation: self.worker = WalletGeneratorWorker(count, network) and
\* self.worker.start()
RegisterWorker(count, network) ==
    /\ start_btn' = FALSE
    /\ worker' = "registered"
    /\ message_box' = "none"
    /\ w_pc' = "validate"
    /\ w_count' = count
    /\ w_network' = network
    /\ w_i' = 0
    /\ w_mnemonic' = NoMnemonic
    /\ w_wallets' = << >>
    /\ w_error' = "none"
    /\ drawn' = 0
    /\ emitted' = << >>
    /\ delivered' = 0

\* _start_generation shows a warning and returns
RejectStart(box) ==
    /\ message_box' = box
    /\ UNCHANGED startVars
    /\ UNCHANGED << delivered >>
    /\ UNCHANGED workerVars

\* the clicked signal of the start button, which only an enabled button emits
_start_generation(count, net, custom_name, rpc_url) ==
    /\ window = "ui_main_window"
    /\ start_btn
    /\ IF validate_wallet_count(count, MAX_WALLET_COUNT) # "ok"
       THEN RejectStart("warning:count")
       ELSE IF IsCustom(net) /\ rpc_url # NoText /\ ~validate_rpc_url(rpc_url)
       THEN RejectStart("warning:rpc")
       ELSE LET network_to_use ==
                    IF IsCustom(net)
                    THEN NetworkConfig(TextOr(custom_name, "Custom Network"),
                                       ChainType_EVM,
                                       net.derivation_path_template)
                    ELSE net
            IN  RegisterWorker(count, network_to_use)
    /\ UNCHANGED << libVars, listVars, show_private_keys, themeVars, fn >>

\* main_window.py: _start_generation, which hands the worker the network's name
main_window_start_generation(count, net, custom_name, rpc_url) ==
    /\ window = "main_window"
    /\ start_btn
    /\ IF validate_wallet_count(count, MAX_WALLET_COUNT) # "ok"
       THEN RejectStart("warning:count")
       ELSE IF IsCustom(net) /\ rpc_url # NoText /\ ~validate_rpc_url(rpc_url)
       THEN RejectStart("warning:rpc")
       ELSE LET network_name ==
                    IF IsCustom(net)
                    THEN TextOr(custom_name, "Custom Network (zh)")
                    ELSE net.name
            IN  RegisterWorker(count, StrAsNetwork(network_name))
    /\ UNCHANGED << libVars, listVars, show_private_keys, themeVars, fn >>

\* mutant: the switch is flipped and the private-key column is left as it was
_toggle_private_keys_stale ==
    /\ show_private_keys' = ~show_private_keys
    /\ message_box' = "none"
    /\ UNCHANGED << libVars, delivered, listVars, startVars, themeVars, fn >>
    /\ UNCHANGED workerVars

_toggle_private_keys ==
    /\ show_private_keys' = ~show_private_keys
    /\ table' = [ row \in 1..Len(table) |->
                    IF row <= Len(wallets)
                    THEN [table[row] EXCEPT !.private_key =
                             _mask_value(show_private_keys',
                                         wallets[row].private_key)]
                    ELSE table[row] ]
    /\ message_box' = "none"
    /\ UNCHANGED << libVars, delivered, wallets, startVars, themeVars, fn >>
    /\ UNCHANGED workerVars

\* mutant: the theme is switched for this run and not written
_switch_theme_nosave(theme) ==
    /\ IF theme = current_theme
       THEN UNCHANGED themeVars
       ELSE /\ current_theme' = theme
            /\ settings' = settings
    /\ message_box' = "none"
    /\ UNCHANGED << libVars, delivered, listVars, show_private_keys, startVars,
                    fn >>
    /\ UNCHANGED workerVars

_switch_theme(theme) ==
    /\ IF theme = current_theme
       THEN UNCHANGED themeVars
       ELSE /\ current_theme' = theme
            /\ settings' = save_theme(theme)
    /\ message_box' = "none"
    /\ UNCHANGED << libVars, delivered, listVars, show_private_keys, startVars,
                    fn >>
    /\ UNCHANGED workerVars

_toggle_theme_button ==
    LET target == IF current_theme = "dark" THEN "light" ELSE "dark"
    IN  _switch_theme(target)

\* the worker thread's steps and the slots its signals are connected to
WorkerSteps ==
    \/ ValidateCount
    \/ \E entropy \in Entropies : DrawMnemonic(entropy)
    \/ Dispatch
    \/ Progress
    \/ Return
    \/ Except
WorkerSlots ==
    \/ _on_progress
    \/ _on_finished
    \/ _on_failed

NextUI ==
    \/ /\ start_btn
       /\ \E count \in UiCounts, net \in PRESET_NETWORKS,
             custom_name \in CustomNames, rpc_url \in RpcUrls :
             _start_generation(count, net, custom_name, rpc_url)
    \/ WorkerSteps
    \/ WorkerSlots
    \/ _clear_wallets

SpecUI == Init /\ [][NextUI]_vars

\* the window with its show/hide button
NextTable ==
    \/ NextUI
    \/ _toggle_private_keys

SpecTable == Init /\ [][NextTable]_vars

\* the window with its other buttons and its theme menu, the worker thread and
\* the event loop of the UI thread being scheduled fairly: a step of run()
\* that can be taken is taken, a queued signal is delivered.  The fairness of
\* Dispatch is written without its enabling condition: Dispatch can be taken
\* exactly when w_pc = "dispatch", each of its steps leaves that position and
\* no other action does, so WF_vars(Dispatch) is []<>(w_pc # "dispatch")
NextWindow ==
    \/ NextUI
    \/ _toggle_private_keys
    \/ \E theme \in {"light", "dark"} : _switch_theme(theme)
    \/ _toggle_theme_button

SpecWindow ==
    /\ Init /\ [][NextWindow]_vars
    /\ WF_vars(ValidateCount)
    /\ WF_vars(\E entropy \in Entropies : DrawMnemonic(entropy))
    /\ []<>(w_pc # "dispatch")
    /\ WF_vars(Progress)
    /\ WF_vars(Return)
    /\ WF_vars(Except)
    /\ WF_vars(WorkerSlots)

\* the two window modules of the repository: the process shows the MainWindow
\* of one of them
WindowModules == {"ui_main_window", "main_window"}

InitEitherWindow == \E module \in WindowModules : InitProcess(module, NoFile)

NextEitherWindow ==
    \/ /\ start_btn
       /\ \E count \in UiCounts, net \in PRESET_NETWORKS,
             custom_name \in CustomNames, rpc_url \in RpcUrls :
             \/ _start_generation(count, net, custom_name, rpc_url)
             \/ main_window_start_generation(count, net, custom_name, rpc_url)
    \/ WorkerSteps
    \/ WorkerSlots
    \/ _clear_wallets
    \/ _toggle_private_keys

SpecEitherWindow == InitEitherWindow /\ [][NextEitherWindow]_vars

(***************************************************************************)
(* The theme: the window started on any settings file, and load_theme      *)
(* called directly                                                         *)
(***************************************************************************)
SettingsFiles ==
    { NoFile, BadFile, JsonFile("light"), JsonFile("dark"), JsonFile("blue"),
      JsonFile(NoKey) }

LoadThemeCall(file) ==
    /\ fn.op = "none"
    /\ fn' = [op |-> "load_theme", file |-> file, result |-> load_theme(file)]
    /\ UNCHANGED libVars
    /\ UNCHANGED workerVars
    /\ UNCHANGED uiVars

InitTheme == \E file \in SettingsFiles : InitWith(file)

NextTheme ==
    \/ \E theme \in {"light", "dark"} : _switch_theme(theme)
    \/ _toggle_theme_button
    \/ \E file \in SettingsFiles : LoadThemeCall(file)
    \/ FnReturn

SpecTheme == InitTheme /\ [][NextTheme]_vars

(***************************************************************************)
(* Properties                                                              *)
(***************************************************************************)
ProgressCount ==
    Cardinality({ j \in 1..Len(emitted) : emitted[j].type = "progress" })
TerminalCount ==
    Cardinality({ j \in 1..Len(emitted) : emitted[j].type # "progress" })
CountValid(count) == count >= 1 /\ count <= MAX_WALLET_COUNT
ChainSupported(network) ==
    network.chain_type \in {ChainType_EVM, ChainType_SOLANA}
\* the call has passed its count check or has failed it
Validated == w_pc \notin {"new", "validate"}
NoWorkDone == drawn = 0 /\ w_wallets = << >> /\ ProgressCount = 0

C2_NoWorkBeforeUnsupportedChain ==
    w_error = "chain" => NoWorkDone

C2_Witness ==
    /\ w_pc = "raised"
    /\ w_error = "chain"
    /\ CountValid(w_count)

\* the template generate_wallets uses for a network: its own, else its chain
\* kind's default
ExpectedTemplate(network) ==
    IF network.derivation_path_template # NoTemplate
    THEN network.derivation_path_template
    ELSE IF network.chain_type = ChainType_EVM
    THEN DERIVATION_PATH_TEMPLATE_EVM
    ELSE DERIVATION_PATH_TEMPLATE_SOL

\* path is template with the number i in place of the placeholder
IsSubstituted(path, template, i) ==
    /\ Len(path) = Len(template)
    /\ \A j \in 1..Len(template) :
          /\ path[j].hardened = template[j].hardened
          /\ path[j].index =
                (IF template[j].index = Placeholder THEN i
                 ELSE template[j].index)

\* the k-th record of a batch for network
RecordFits(rec, k, network) ==
    /\ rec.index = k
    /\ rec.network = network.name
    /\ rec.chain_type = network.chain_type
    /\ IsSubstituted(rec.derivation_path, ExpectedTemplate(network), k - 1)

\* C3: a successful generate_wallets(count, network) returns exactly count
\* records in generation order; the k-th has index k, the network's name and chain
\* kind, and the network's template (the chain kind's default when it has none)
\* with k-1 in place of the placeholder as its derivation path.  The records built
\* so far satisfy the same at every moment of the loop.
C3_RecordsInOrder ==
    /\ \A k \in 1..Len(w_wallets) : RecordFits(w_wallets[k], k, w_network)
    /\ \A j \in 1..Len(emitted) :
          emitted[j].type = "finished"
             => /\ Len(emitted[j].wallets) = w_count
                /\ \A k \in 1..Len(emitted[j].wallets) :
                      RecordFits(emitted[j].wallets[k], k, w_network)

C3_Witness ==
    /\ w_pc = "done"
    /\ w_count = MaxCount
    /\ w_network.derivation_path_template = NoTemplate
    /\ emitted[Len(emitted)].type = "finished"
    /\ Len(emitted[Len(emitted)].wallets) = MaxCount

\* C4: progress notifications carry done = 1, 2, 3, ... without gap or repeat and
\* total = count; the one with done = k is emitted after the k-th record is
\* appended and before unit k+1 draws its mnemonic; a successful call emits
\* exactly count of them, the last with done = count = total.
C4_ProgressOrder ==
    /\ \A j \in 1..Len(emitted) :
          emitted[j].type = "progress"
             => emitted[j].done = j /\ emitted[j].total = w_count
    /\ ProgressCount <= Len(w_wallets)
    /\ Len(w_wallets) <= ProgressCount + 1
    /\ drawn <= ProgressCount + 1
    /\ w_pc = "progress" => Len(w_wallets) = ProgressCount + 1
    /\ \A j \in 1..Len(emitted) :
          emitted[j].type = "finished"
             => /\ j = w_count + 1
                /\ emitted[w_count].type = "progress"
                /\ emitted[w_count].done = w_count
                /\ emitted[w_count].total = w_count

C4_Witness ==
    /\ w_pc = "done"
    /\ w_count = MaxCount
    /\ ProgressCount = MaxCount
    /\ emitted[Len(emitted)].type = "finished"

\* C5: generate_wallets is all-or-nothing: once a unit raises, no later unit is
\* started and no record is appended, the records built before it are not handed
\* over, and the worker emits one failed signal and no finished signal; a finished
\* signal always carries count records.
C5_AllOrNothing ==
    /\ TerminalCount <= 1
    /\ w_error # "none"
          => /\ w_pc \in {"raised", "done"}
             /\ drawn <= Len(w_wallets) + 1
             /\ \A j \in 1..Len(emitted) :
                   /\ emitted[j].type # "finished"
                   /\ emitted[j].wallets = << >>
    /\ (w_pc = "done" /\ w_error # "none")
          => emitted[Len(emitted)].type = "failed"
    /\ \A j \in 1..Len(emitted) :
          emitted[j].type = "finished"
             => w_error = "none" /\ Len(emitted[j].wallets) = w_count

\* a batch that failed in its second unit, after one record was built
C5_Witness ==
    /\ w_pc = "done"
    /\ w_error = "key"
    /\ Len(w_wallets) = 1
    /\ emitted[Len(emitted)].type = "failed"

\* C6: a worker run emits progress signals and then exactly one terminal signal,
\* finished with the full record sequence or failed with the error, never both
\* and nothing after it; a failed signal after k completed units is preceded by
\* exactly the k progress signals (1..k, total).
C6_SignalProtocol ==
    /\ \A j \in 1..Len(emitted) :
          emitted[j].type # "progress" => j = Len(emitted) /\ w_pc = "done"
    /\ w_pc = "done" => TerminalCount = 1
    /\ w_pc \notin {"new", "done"} => TerminalCount = 0
    /\ \A j \in 1..Len(emitted) :
          /\ emitted[j].type = "progress"
                => emitted[j].done = j /\ emitted[j].total = w_count
          /\ emitted[j].type = "failed"
                => /\ j = Len(w_wallets) + 1
                   /\ emitted[j].message = w_error
                   /\ w_error # "none"
          /\ emitted[j].type = "finished"
                => /\ emitted[j].wallets = w_wallets
                   /\ Len(w_wallets) = w_count
                   /\ w_error = "none"

\* a failed signal preceded by one progress signal
C6_Witness ==
    /\ Len(emitted) = 2
    /\ emitted[1].type = "progress"
    /\ emitted[2].type = "failed"

\* whether some child step of the secp256k1 derivation along segments has its IL at
\* or above the group order, or a zero scalar as its result
RECURSIVE OverflowStep(_, _, _)
OverflowStep(priv, chain, segments) ==
    IF segments = << >> THEN FALSE
    ELSE
      LET seg == Head(segments)
          child == _derive_child(priv, chain, Bip32Index(seg), seg.hardened)
      IN  /\ child.ok
          /\ \/ child.Il >= SECP256K1_N
             \/ child.key = 0
             \/ OverflowStep(child.key, child.chain, Tail(segments))

DerivationOverflows(mnemonic, path) ==
    LET I == HmacSha512(BITCOIN_SEED, << MnemonicToSeed(mnemonic) >>)
    IN  OverflowStep(I.Il, I.Ir, path)

\* C7: a secp256k1 child step whose IL is >= n or whose resulting scalar is zero
\* makes the derivation fail; no key that came through such a step is encoded into
\* a record.
C7_OverflowSurfaced ==
    \A k \in 1..Len(w_wallets) :
        w_wallets[k].chain_type = ChainType_EVM
           => ~DerivationOverflows(w_wallets[k].mnemonic,
                                   w_wallets[k].derivation_path)

C7_Witness ==
    /\ w_pc = "progress"
    /\ w_network.chain_type = ChainType_EVM
    /\ DerivationOverflows(w_mnemonic, w_wallets[Len(w_wallets)].derivation_path)

\* path with an apostrophe on every segment
MarkAll(path) ==
    [ j \in 1..Len(path) |-> [path[j] EXCEPT !.hardened = TRUE] ]

\* C8: the ed25519 deriver ignores the apostrophes: a path with any of them
\* removed yields the key of the fully marked path, every segment's index being
\* encoded with the bit 2^31 set.
C8_Ed25519IgnoresMarker ==
    fn.op = "_slip10_derive_ed25519"
       => /\ fn.key = _slip10_derive_ed25519(fn.seed, MarkAll(fn.path))
          /\ \A j \in 1..Len(fn.path) :
                Slip10Index(fn.path[j]) = [hi |-> 1, lo |-> fn.path[j].index]

\* a two-segment path whose second segment has no apostrophe
C8_Witness ==
    /\ fn.op = "_slip10_derive_ed25519"
    /\ Len(fn.path) = 2
    /\ fn.path[1].hardened
    /\ ~fn.path[2].hardened

Records(ws) == { ws[k] : k \in 1..Len(ws) }
SameDerivationInputs(a, b) ==
    /\ a.chain_type = b.chain_type
    /\ a.mnemonic = b.mnemonic
    /\ a.derivation_path = b.derivation_path

C10_MnemonicWordCounts ==
    fn.op = "_generate_mnemonic"
       => /\ fn.result.ok <=> fn.num_words \in {12, 15, 18, 21, 24}
          /\ fn.result.ok
                => /\ fn.result.strength = 128 + 32 * ((fn.num_words - 12) \div 3)
                   /\ fn.result.strength + fn.result.strength \div 32
                         = 11 * fn.num_words
                   /\ fn.result.mnemonic.words = fn.num_words
                   /\ fn.result.mnemonic.ent = fn.entropy
                   /\ MnemonicCheck(fn.result.mnemonic)
                   /\ fn.result.drew = 1
          /\ ~fn.result.ok
                => fn.result.error = "words" /\ fn.result.drew = 0

C10_Witness ==
    /\ fn.op = "_generate_mnemonic"
    /\ fn.num_words = 24
    /\ fn.result.ok
    /\ fn.result.strength = 256

\* printed length of a key or address text: two hex digits per byte (after the
\* two characters of a prefix, if any); for Base58 the number of bytes it decodes to
HexDigits(text) == 64 * Len(text.bytes)
HexTextLen(text) ==
    IF text.enc = "0xhex" THEN 2 + HexDigits(text) ELSE HexDigits(text)
Base58Bytes(text) == 32 * Len(text.bytes)

PrivateKeyWellFormed(rec) ==
    IF rec.chain_type = ChainType_EVM
    THEN /\ rec.private_key.enc = "hex"
         /\ HexTextLen(rec.private_key) = 64
    ELSE /\ rec.private_key.enc = "base58"
         /\ Base58Bytes(rec.private_key) = 64
         /\ rec.private_key.bytes[2] = VerifyKey(rec.private_key.bytes[1])
         /\ rec.address = [enc |-> "base58",
                           bytes |-> << rec.private_key.bytes[2] >>]

\* C12: in every record of every successful batch the private key has the fixed
\* length of its chain kind: 64 hexadecimal characters without prefix for EVM; for
\* Solana the Base58 text of 64 bytes, the 32-byte signing seed followed by the
\* 32-byte public key whose Base58 text is the record's address.
C12_PrivateKeyLength ==
    \A j \in 1..Len(emitted) :
        emitted[j].type = "finished"
           => \A k \in 1..Len(emitted[j].wallets) :
                 PrivateKeyWellFormed(emitted[j].wallets[k])

\* a successful EVM batch whose private keys are 66 characters long, "0x" first
C12_Witness ==
    /\ w_pc = "done"
    /\ w_network.chain_type = ChainType_EVM
    /\ emitted[Len(emitted)].type = "finished"
    /\ Len(emitted[Len(emitted)].wallets) = MaxCount
    /\ \A k \in 1..MaxCount :
          HexTextLen(emitted[Len(emitted)].wallets[k].private_key) = 66

\* the record generate_wallets builds for unit i from the phrase drawn for it
UnitRecord(network, i, mnemonic) ==
    WalletRecord(i + 1, network, DeriveUnit(network, i, mnemonic), mnemonic)

\* one phrase is drawn per unit started, and every record is the record of its
\* own unit and its own phrase
C13_State ==
    /\ w_pc \in {"loop", "progress"} => drawn = Len(w_wallets)
    /\ w_pc = "dispatch" => drawn = Len(w_wallets) + 1
    /\ drawn \in {Len(w_wallets), Len(w_wallets) + 1}
    /\ w_pc = "progress" => w_wallets[Len(w_wallets)].mnemonic = w_mnemonic
    /\ \A k \in 1..Len(w_wallets) :
          w_wallets[k] = UnitRecord(w_network, k - 1, w_wallets[k].mnemonic)

\* a unit draws once, its record is built from that draw alone and appended; the
\* records of the other units are left as they are
C13_Step ==
    /\ (w_pc = "loop" /\ w_pc' = "dispatch")
          => drawn' = drawn + 1 /\ w_wallets' = w_wallets
    /\ (w_pc = "dispatch" /\ w_pc' = "progress")
          => /\ drawn' = drawn
             /\ w_mnemonic' = w_mnemonic
             /\ w_wallets' =
                   Append(w_wallets, UnitRecord(w_network, w_i, w_mnemonic))
    /\ (w_pc # "dispatch" /\ w_pc' # "validate") => w_wallets' = w_wallets
    /\ (w_pc # "loop" /\ w_pc' # "validate") => drawn' = drawn

\* C13: each unit of a batch draws exactly one phrase; that phrase is the one
\* stored in the unit's record and the only one its address and private key are
\* derived from; no draw is used for two records; the record of unit j is a
\* function of (network, j, the phrase drawn for j) alone and is not touched by
\* any other unit.
C13_OneDrawPerUnit == [](C13_State) /\ [][C13_Step]_vars

\* a batch of two units that drew twice, the same entropy both times, into two
\* records
C13_Witness ==
    /\ w_pc = "progress"
    /\ drawn = 2
    /\ Len(w_wallets) = 2
    /\ w_wallets[1].mnemonic = w_wallets[2].mnemonic
    /\ w_wallets[1].address # w_wallets[2].address

\* the HMAC input of a child step, as the claim words it
ChildData(k, index, hardened) ==
    IF hardened THEN << 0, k, index.hi, index.lo >>
    ELSE CompressedPubkey(k) \o << index.hi, index.lo >>

\* C14: a secp256k1 child step that returns has computed I = HMAC(chain code,
\* data) with data = 0x00 || k || index_be32 when hardened and
\* compressed_pubkey(k) || index_be32 otherwise, and returns (IL + k) mod n with
\* the chain code IR; for all 32-byte inputs the returned scalar lies in [0, n)
\* and fits 32 bytes.  The step returns unless the index does not fit 4 bytes or
\* it is non-hardened on a scalar that has no public key.
C14_ChildStep ==
    fn.op = "_derive_child"
       => LET I == HmacSha512(fn.chain_code,
                              ChildData(fn.private_key, fn.index, fn.hardened))
          IN  /\ fn.result.ok
                    => /\ fn.result.key = (I.Il + fn.private_key) % SECP256K1_N
                       /\ fn.result.chain = I.Ir
                       /\ fn.result.key >= 0
                       /\ fn.result.key < SECP256K1_N
                       /\ fn.result.key < KeyMod
                       /\ fn.result.chain < KeyMod
              /\ fn.result.ok
                    <=> /\ FitsUint32(fn.index)
                        /\ fn.hardened \/ ~PrivateKeyRejected(fn.private_key)

\* a hardened step from the largest 32-byte value, above the group order, whose
\* sum IL + k wraps around n
C14_Witness ==
    /\ fn.op = "_derive_child"
    /\ fn.hardened
    /\ fn.private_key = KeyMod - 1
    /\ fn.result.ok
    /\ fn.result.Il + fn.private_key >= SECP256K1_N
    /\ fn.result.key < SECP256K1_N

\* the hardened flags of the steps of a derivation
Hardenings(steps) == [ j \in 1..Len(steps) |-> steps[j].hardened ]

\* C15: for a segment with textual index x below 2^31, both derivers encode a
\* hardened segment as x + 2^31, the top bit of the four bytes set, and the
\* secp256k1 deriver encodes a non-hardened segment as x, the top bit clear;
\* every such index fits 4 bytes; with the default templates and a batch index
\* in [0, MAX_WALLET_COUNT) the EVM path is three hardened steps followed by two
\* non-hardened ones and the Solana path is five hardened steps.
C15_IndexEncoding ==
    /\ fn.op \in {"_derive_private_key_from_path", "_slip10_derive_ed25519"}
          => \A j \in 1..Len(fn.path) :
                /\ fn.path[j].hardened
                      => /\ fn.steps[j].index = [hi |-> 1, lo |-> fn.path[j].index]
                         /\ fn.steps[j].hardened
                /\ FitsUint32(fn.steps[j].index)
                /\ IndexBytes(fn.steps[j].index)[1] = 1 <=> fn.steps[j].hardened
    /\ fn.op = "_derive_private_key_from_path"
          => /\ \A j \in 1..Len(fn.path) :
                   ~fn.path[j].hardened
                      => /\ fn.steps[j].index = [hi |-> 0, lo |-> fn.path[j].index]
                         /\ ~fn.steps[j].hardened
             /\ fn.path \in DefaultPaths(DERIVATION_PATH_TEMPLATE_EVM)
                   => /\ Hardenings(fn.steps) = << TRUE, TRUE, TRUE, FALSE, FALSE >>
                      /\ fn.result.error # "overflow"
    /\ (/\ fn.op = "_slip10_derive_ed25519"
        /\ fn.path \in DefaultPaths(DERIVATION_PATH_TEMPLATE_SOL))
          => Hardenings(fn.steps) = << TRUE, TRUE, TRUE, TRUE, TRUE >>

\* the EVM default path of the last batch index, m/44'/60'/0'/0/9999
C15_Witness ==
    /\ fn.op = "_derive_private_key_from_path"
    /\ fn.path = Format(DERIVATION_PATH_TEMPLATE_EVM, MAX_WALLET_COUNT - 1)
    /\ fn.steps[1].index = [hi |-> 1, lo |-> 44]
    /\ fn.steps[5].index = [hi |-> 0, lo |-> MAX_WALLET_COUNT - 1]

\* C16: the worker of either window, started for a valid count and a selected
\* preset network, ends with the finished signal carrying exactly count records
\* and never with failed.
C16_WindowsAgree ==
    /\ \A j \in 1..Len(emitted) : emitted[j].type # "failed"
    /\ (w_pc = "done" /\ worker = "registered")
          => /\ emitted[Len(emitted)].type = "finished"
             /\ Len(emitted[Len(emitted)].wallets) = w_count

\* the worker of main_window.py, started for one unit on the preset Ethereum, has
\* ended with failed: generate_wallets read .chain_type of the name it was handed
C16_Witness ==
    /\ window = "main_window"
    /\ w_pc = "done"
    /\ worker = "registered"
    /\ w_count = 1
    /\ w_network = StrAsNetwork("Ethereum")
    /\ w_error = "attribute"
    /\ drawn = 1
    /\ emitted = << FailedSignal("attribute") >>

\* the other theme
OtherTheme(theme) == IF theme = "light" THEN "dark" ELSE "light"

\* what a step of the window does to the theme and to the settings file
C17_Step ==
    /\ current_theme' # current_theme
          => /\ settings' = JsonFile(current_theme')
             /\ load_theme(settings') = current_theme'
    /\ current_theme' = current_theme => settings' = settings
    /\ _toggle_theme_button
          => /\ current_theme' = OtherTheme(current_theme)
             /\ OtherTheme(current_theme') = current_theme
    /\ _switch_theme(current_theme) => UNCHANGED themeVars

\* what load_theme returns for a settings file
C17_Load ==
    fn.op = "load_theme"
       => fn.result =
             (IF fn.file \in {JsonFile("light"), JsonFile("dark")}
              THEN fn.file.theme ELSE "light")

Warnings == {"warning:count", "warning:rpc"}
\* no worker thread is running and no signal of one is waiting for the UI
NoWorkerActive == w_pc \in {"new", "done"} /\ delivered = Len(emitted)

C18_State ==
    /\ start_btn <=> worker = "none"
    /\ worker = "none" => NoWorkerActive
    /\ message_box \in Warnings => start_btn /\ worker = "none"

C18_Step ==
    /\ (w_pc' = "validate" /\ w_pc # "validate")
          => /\ worker = "none"
             /\ NoWorkerActive
             /\ worker' = "registered"
             /\ ~start_btn'
             /\ CountValid(w_count')
    /\ message_box' \in Warnings
          => /\ UNCHANGED startVars
             /\ UNCHANGED workerVars
             /\ start_btn'
             /\ worker' = "none"

\* C18: in every reachable state of the window at most one generation worker is
\* active: a worker is started only when none is registered, no thread is running
\* and no signal is waiting; the start button is disabled exactly while a worker
\* is registered; a start request rejected by the count or the RPC-URL check
\* creates no worker and leaves the button enabled.
C18_OneWorker == [](C18_State) /\ [][C18_Step]_vars

\* a second batch is running, its first progress handled, the first batch shown;
\* the button is disabled
C18_Witness ==
    /\ worker = "registered"
    /\ ~start_btn
    /\ w_pc = "dispatch"
    /\ w_i = 1
    /\ delivered = 1
    /\ wallets # << >>

\* the private-key column of the table against the list and the switch
C21_State ==
    /\ Len(table) = Len(wallets)
    /\ \A row \in 1..Len(table) :
          /\ table[row].private_key # MaskText <=> show_private_keys
          /\ table[row].private_key = wallets[row].private_key <=> show_private_keys
          /\ table[row].private_key \in {MaskText, wallets[row].private_key}
          /\ wallets[row].private_key # MaskText

\* C21: the window starts with show_private_keys false, and in every state each
\* private-key cell of the table shows the record's own private key if
\* show_private_keys is true and the fixed mask if it is false, whatever
\* finished batches, clear actions and show/hide toggles came before.
C21_Masking == ~show_private_keys /\ [](C21_State)

\* a finished batch of two records is shown with its keys, the switch having been
\* turned on
C21_Witness ==
    /\ show_private_keys
    /\ w_pc = "done"
    /\ delivered = Len(emitted)
    /\ Len(wallets) = 2
    /\ Len(table) = 2
    /\ table[1].private_key = wallets[1].private_key
    /\ table[2].private_key = wallets[2].private_key
    /\ table[2].private_key # table[1].private_key

\* the record sequence of a batch that ran to its end: one record per requested
\* wallet, as the worker built them
CompleteBatch(ws) ==
    /\ ws = w_wallets
    /\ Len(ws) = w_count
    /\ w_error = "none"

\* one step of the window, seen from its wallet list and its table
C20_Step ==
    /\ wallets' # wallets =>
          \/ /\ Pending
             /\ NextSignal.type = "finished"
             /\ delivered' = delivered + 1
             /\ CompleteBatch(wallets')
             /\ table' = _refresh_table(show_private_keys, wallets')
          \/ /\ wallets' = << >>
             /\ table' = << >>
             /\ UNCHANGED << delivered, workerVars >>
    /\ (Pending /\ delivered' = delivered + 1) =>
          IF NextSignal.type = "finished"
          THEN /\ wallets' = NextSignal.wallets
               /\ CompleteBatch(wallets')
          ELSE UNCHANGED listVars
    /\ table' # table => wallets' # wallets

\* C20: the wallet list changes only by being replaced with the complete record
\* sequence of a finished batch or by being emptied by the clear action; a
\* progress signal and a failed signal leave the list and the table as they are,
\* so the records of a failed batch are never shown and the previous batch
\* stays; a finished signal installs the full result whatever was cleared while
\* the batch ran.
C20_ListFrame == [][C20_Step]_vars

\* a batch failed after building a record, its error has been shown, and the
\* window still lists the previous batch
C20_Witness ==
    /\ w_pc = "done"
    /\ delivered = Len(emitted)
    /\ w_error # "none"
    /\ w_wallets # << >>
    /\ message_box = "critical"
    /\ wallets # << >>
    /\ wallets # w_wallets
    /\ Len(table) = Len(wallets)

\* the UI has handled the terminal signal of the worker and is ready again
Terminated ==
    /\ w_pc = "done"
    /\ delivered = Len(emitted)
    /\ emitted # << >>
    /\ emitted[Len(emitted)].type \in {"finished", "failed"}
    /\ start_btn
    /\ worker = "none"

C11_InvalidMnemonicFails ==
    /\ \A k \in 1..Len(w_wallets) : MnemonicCheck(w_wallets[k].mnemonic)
    /\ w_pc = "progress" => MnemonicCheck(w_mnemonic)
    /\ (/\ w_pc \in {"raised", "done"}
        /\ drawn > 0
        /\ ~MnemonicCheck(w_mnemonic)
        /\ ChainSupported(w_network))
          => w_error = "mnemonic"
    /\ w_error = "mnemonic"
          => /\ w_pc \in {"raised", "done"}
             /\ ~MnemonicCheck(w_mnemonic)
             /\ drawn = Len(w_wallets) + 1
             /\ w_i = Len(w_wallets)
             /\ \A j \in 1..Len(emitted) : emitted[j].type # "finished"
    /\ (w_pc = "done" /\ w_error = "mnemonic")
          => /\ emitted[Len(emitted)] = FailedSignal("mnemonic")
             /\ TerminalCount = 1

\* a batch whose second unit was handed a phrase with a wrong checksum
C11_Witness ==
    /\ w_pc = "done"
    /\ w_error = "mnemonic"
    /\ w_mnemonic.words = 12
    /\ Len(w_wallets) = 1
    /\ drawn = 2
    /\ emitted[Len(emitted)].type = "failed"

====
